---- MODULE Spec2Model ----
(***************************************************************************)
(* A model of the Boiling-Learning persistence combinators                 *)
(* (boiling_learning/io/io.py), the chunked filename patterns of the same  *)
(* file, and the cached table of ExperimentVideo                           *)
(* (boiling_learning/preprocessing/ExperimentVideo.py).                    *)
(*                                                                         *)
(* Python values are modelled as follows.  None is the string "None".      *)
(* A call's outcome is a record: [kind |-> "return", value |-> v] when it  *)
(* returns v and [kind |-> "raise", exc |-> e] when exception e leaves it. *)
(* A loader or saver passed as an argument is a function from the          *)
(* sub-path it is called on to the outcome of that call.                   *)
(***************************************************************************)
EXTENDS Integers, Sequences, FiniteSets, TLC

VARIABLES
    fs,       \* persistence: what the element saver wrote under path/train, path/val, path/test
    io,       \* persistence: the last call (its arguments, the calls it made, its outcome)
    ser_fs,   \* save_serialized/load_serialized: what the per-key savers wrote under path/key
    ser,      \* save_serialized/load_serialized: the last call
    chunk,    \* chunked_filename_pattern: the pattern built and its last two applications
    pat,      \* make_callable_filename_pattern: the last resolution and its last application
    ev,       \* one ExperimentVideo object and the table file at its df_path
    ex        \* extract_frames: the files of outputdir and the last call

vars == <<fs, io, ser_fs, ser, chunk, pat, ev, ex>>

None == "None"

Return(v) == [kind |-> "return", value |-> v]

Raise(e) == [kind |-> "raise", exc |-> e]

Idle == [op |-> "idle"]

(***************************************************************************)
(* Exception classes: each class with the classes it is an instance of.    *)
(***************************************************************************)
Mro(e) ==
    CASE e = "FileNotFoundError" -> {"FileNotFoundError", "OSError", "Exception"}
      [] e = "PermissionError"   -> {"PermissionError", "OSError", "Exception"}
      [] e = "OSError"           -> {"OSError", "Exception"}
      [] e = "KeyError"          -> {"KeyError", "LookupError", "Exception"}
      [] e = "IndexError"        -> {"IndexError", "LookupError", "Exception"}
      [] e = "ValueError"        -> {"ValueError", "Exception"}
      [] e = "TypeError"         -> {"TypeError", "Exception"}
      [] e = "ZeroDivisionError" -> {"ZeroDivisionError", "ArithmeticError", "Exception"}
      [] OTHER                   -> {e, "Exception"}

\* `except classes:` catches e
Catches(classes, e) == \E c \in classes : c \in Mro(e)

(***************************************************************************)
(* io.py: add_bool_flag                                                    *)
(***************************************************************************)
DefaultExpected == {"FileNotFoundError"}

add_bool_flag_catch_all(loader, expected_exceptions) ==
    [path \in DOMAIN loader |->
        IF loader[path].kind = "return"
        THEN Return(<<TRUE, loader[path].value>>)
        ELSE Return(<<FALSE, None>>)]

\* the _loader returned by add_bool_flag(loader, expected_exceptions)
add_bool_flag(loader, expected_exceptions) ==
    [path \in DOMAIN loader |->
        IF loader[path].kind = "return"
        THEN Return(<<TRUE, loader[path].value>>)
        ELSE IF Catches(expected_exceptions, loader[path].exc)
             THEN Return(<<FALSE, None>>)
             ELSE loader[path]]

(***************************************************************************)
(* io.py: saver_dataset_triplet, loader_dataset_triplet                    *)
(***************************************************************************)
SubPaths == {"train", "val", "test"}

Datasets == {"dsA", "dsB"}

\* the sub-paths _saver hands to saver, in order of the calls
saver_targets_always_val(ds) ==
    <<<<ds[1], "train">>, <<ds[2], "val">>, <<ds[3], "test">>>>

saver_targets(ds) ==
    <<<<ds[1], "train">>>>
    \o (IF ds[2] # None THEN <<<<ds[2], "val">>>> ELSE <<>>)
    \o <<<<ds[3], "test">>>>

\* index of the first call of `calls` on which saver raises, 0 when none does
RECURSIVE FirstRaise(_, _, _)
FirstRaise(calls, saver, i) ==
    IF i > Len(calls) THEN 0
    ELSE IF saver[calls[i][2]].kind = "raise" THEN i
    ELSE FirstRaise(calls, saver, i + 1)

\* the _saver returned by saver_dataset_triplet(saver), applied to (ds, path):
\* the calls made to saver, in order, and the outcome
saver_dataset_triplet(saver, ds) ==
    LET targets == saver_targets(ds)
        stop    == FirstRaise(targets, saver, 1)
    IN  IF stop = 0
        THEN [calls |-> targets, outcome |-> Return(None)]
        ELSE [calls |-> SubSeq(targets, 1, stop),
              outcome |-> saver[targets[stop][2]]]

\* the store after the calls: every call that returned has written its object
RECURSIVE Written(_, _, _)
Written(store, calls, saver) ==
    IF calls = <<>> THEN store
    ELSE LET c == Head(calls)
         IN  Written(IF saver[c[2]].kind = "return"
                     THEN [store EXCEPT ![c[2]] = c[1]]
                     ELSE store,
                     Tail(calls), saver)

triplet_success_all(success_train, success_val, success_test) ==
    success_train /\ success_val /\ success_test

\* success = success_train and success_test
triplet_success(success_train, success_val, success_test) ==
    success_train /\ success_test

\* if not success_val: ds_val = None
triplet_val(success_val, ds_val) ==
    IF ~success_val THEN None ELSE ds_val

\* the _loader returned by loader_dataset_triplet(loader), applied to path:
\* the sub-paths loader was called on, in order, and the outcome
loader_dataset_triplet(loader) ==
    IF loader["train"].kind = "raise"
    THEN [calls |-> <<"train">>, outcome |-> loader["train"]]
    ELSE IF loader["val"].kind = "raise"
    THEN [calls |-> <<"train", "val">>, outcome |-> loader["val"]]
    ELSE IF loader["test"].kind = "raise"
    THEN [calls |-> <<"train", "val", "test">>, outcome |-> loader["test"]]
    ELSE LET success_train == loader["train"].value[1]
             ds_train      == loader["train"].value[2]
             success_val   == loader["val"].value[1]
             ds_val        == triplet_val(success_val, loader["val"].value[2])
             success_test  == loader["test"].value[1]
             ds_test       == loader["test"].value[2]
             success       == triplet_success(success_train, success_val, success_test)
         IN  [calls |-> <<"train", "val", "test">>,
              outcome |-> Return(<<success, <<ds_train, ds_val, ds_test>>>>)]

\* an element loader l that reads back what the element saver wrote under a
\* sub-path and raises FileNotFoundError where nothing was written
StoreLoader(store) ==
    [p \in SubPaths |->
        IF store[p] = None THEN Raise("FileNotFoundError") ELSE Return(store[p])]

\* the outcomes a sub-loader or a saver may have on one sub-path
BoolFlaggedOutcomes ==
    {Return(<<b, v>>) : b \in BOOLEAN, v \in Datasets \cup {None}}
    \cup {Raise("PermissionError")}

SaverOutcomes == {Return(None), Raise("PermissionError")}

RawLoaderOutcomes ==
    {Return(v) : v \in Datasets}
    \cup {Raise(e) : e \in {"FileNotFoundError", "PermissionError", "KeyError"}}

ExpectedChoices ==
    {DefaultExpected, {}, {"OSError"}, {"KeyError", "FileNotFoundError"}}

Triplets == Datasets \X (Datasets \cup {None}) \X Datasets

\* the other components are left alone
PersistOnly == UNCHANGED <<ser_fs, ser, chunk, pat, ev, ex>>

SerialOnly == UNCHANGED <<fs, io, chunk, pat, ev, ex>>

ChunkOnly == UNCHANGED <<fs, io, ser_fs, ser, pat, ev, ex>>

PatOnly == UNCHANGED <<fs, io, ser_fs, ser, chunk, ev, ex>>

EvOnly == UNCHANGED <<fs, io, ser_fs, ser, chunk, pat, ex>>

ExtractOnly == UNCHANGED <<fs, io, ser_fs, ser, chunk, pat, ev>>

PersistInit ==
    /\ fs = [p \in SubPaths |-> None]
    /\ io = Idle

\* _saver(ds, path) of saver_dataset_triplet(saver)
SaveTriplet ==
    \E ds \in Triplets, saver \in [SubPaths -> SaverOutcomes] :
        LET r == saver_dataset_triplet(saver, ds)
        IN  /\ fs' = Written(fs, r.calls, saver)
            /\ io' = [op |-> "save", ds |-> ds, saver |-> saver,
                      calls |-> r.calls, outcome |-> r.outcome]
            /\ PersistOnly

\* _loader(path) of loader_dataset_triplet(loader), any bool-flagged loader
LoadTriplet ==
    \E loader \in [SubPaths -> BoolFlaggedOutcomes] :
        LET r == loader_dataset_triplet(loader)
        IN  /\ io' = [op |-> "load", loader |-> loader,
                      calls |-> r.calls, outcome |-> r.outcome]
            /\ UNCHANGED fs
            /\ PersistOnly

\* _loader(path) of loader_dataset_triplet(add_bool_flag(l)), l reading the store;
\* `after` holds the triplet of the save that has just returned, if one has
LoadStoredTriplet ==
    LET r == loader_dataset_triplet(add_bool_flag(StoreLoader(fs), DefaultExpected))
    IN  /\ io' = [op |-> "load_stored",
                  after |-> IF io.op = "save" /\ io.outcome.kind = "return"
                            THEN <<io.ds>> ELSE <<>>,
                  calls |-> r.calls, outcome |-> r.outcome]
        /\ UNCHANGED fs
        /\ PersistOnly

\* _loader(path) of add_bool_flag(loader, expected_exceptions)
CallFlagged ==
    \E out \in RawLoaderOutcomes, expected \in ExpectedChoices :
        /\ io' = [op |-> "flagged", loader_outcome |-> out, expected |-> expected,
                  outcome |-> add_bool_flag([p \in {"path"} |-> out], expected)["path"]]
        /\ UNCHANGED fs
        /\ PersistOnly

PersistNext == SaveTriplet \/ LoadTriplet \/ LoadStoredTriplet \/ CallFlagged

(***************************************************************************)
(* io.py: save_serialized, load_serialized                                 *)
(***************************************************************************)
Keys == {"a", "b"}

Payloads == {"p1", "p2"}

\* a mapping as Python iterates it: (key, value) items in insertion order
Mappings ==
    {m \in UNION {[1..n -> Keys \X Payloads] : n \in 0..Cardinality(Keys)} :
        \A i, j \in DOMAIN m : i # j => m[i][1] # m[j][1]}

KeysOf(m) == {m[i][1] : i \in DOMAIN m}

\* save(return_dict, path) of save_serialized(save_map): save_map is given by its
\* keys, the saver of key k writing its object at the sub-path it is handed.
\* A call is <<k, obj, sub-path>>: save_map[k](obj, path / sub-path)
RECURSIVE save_serialized(_, _, _)
save_serialized(save_map, items, calls) ==
    IF items = <<>>
    THEN [calls |-> calls, outcome |-> Return(None)]
    ELSE LET key == Head(items)[1]
             obj == Head(items)[2]
         IN  IF key \notin save_map
             THEN [calls |-> calls, outcome |-> Raise("KeyError")]
             ELSE save_serialized(save_map, Tail(items), Append(calls, <<key, obj, key>>))

RECURSIVE SerWritten(_, _)
SerWritten(store, calls) ==
    IF calls = <<>> THEN store
    ELSE SerWritten([store EXCEPT ![Head(calls)[3]] = Head(calls)[2]], Tail(calls))

\* load(path) of load_serialized(load_map): every key of load_map is loaded from
\* path / key; the loader of a key raises FileNotFoundError where nothing was written
load_serialized(load_map, store) ==
    IF \E k \in load_map : store[k] = None
    THEN Raise("FileNotFoundError")
    ELSE Return([k \in load_map |-> store[k]])

SerialInit ==
    /\ ser_fs = [k \in Keys |-> None]
    /\ ser = Idle

SaveSerialized ==
    \E save_map \in SUBSET Keys, return_dict \in Mappings :
        LET r == save_serialized(save_map, return_dict, <<>>)
        IN  /\ ser_fs' = SerWritten(ser_fs, r.calls)
            /\ ser' = [op |-> "save", save_map |-> save_map, return_dict |-> return_dict,
                       calls |-> r.calls, outcome |-> r.outcome]
            /\ SerialOnly

LoadSerialized ==
    \E load_map \in SUBSET Keys :
        /\ ser' = [op |-> "load", load_map |-> load_map,
                   outcome |-> load_serialized(load_map, ser_fs)]
        /\ UNCHANGED ser_fs
        /\ SerialOnly

SerialNext == SaveSerialized \/ LoadSerialized

(***************************************************************************)
(* io.py: chunked_filename_pattern                                         *)
(***************************************************************************)
MaxChunkSize == 3

MaxNegChunkSize == 2

MaxChunkLen == 2

MaxIndex == 12

\* str.format of an int: its decimal digits, a leading '-' when negative
Digit(d) == <<"0", "1", "2", "3", "4", "5", "6", "7", "8", "9">>[d + 1]

RECURSIVE DecNat(_)
DecNat(n) == IF n < 10 THEN Digit(n) ELSE DecNat(n \div 10) \o Digit(n % 10)

Dec(n) == IF n < 0 THEN "-" \o DecNat(-n) ELSE DecNat(n)

\* Python's a // b for b # 0: the floor of a / b, for either sign of b
FloorDiv(a, b) == IF b > 0 THEN a \div b ELSE (-a) \div (-b)

\* tuple(accumulate(chunk_sizes, operator.mul)): the running products
RECURSIVE accumulate(_)
accumulate(chunk_sizes) ==
    IF Len(chunk_sizes) <= 1 THEN chunk_sizes
    ELSE LET front == accumulate(SubSeq(chunk_sizes, 1, Len(chunk_sizes) - 1))
         IN  Append(front, front[Len(front)] * chunk_sizes[Len(chunk_sizes)])

\* filename.format(index=index), filename = 'frame{index}.png'
filename_formatter(index) == "frame" \o Dec(index) \o ".png"

\* chunk_name.format(min_index=.., max_index=..), chunk_name = '{min_index}-{max_index}'
chunk_name_formatter(min_index, max_index) == Dec(min_index) \o "-" \o Dec(max_index)

\* bl_utils.ensure_resolved(path, root=root): the path anchored under root
ensure_resolved(path, root) == IF root = None THEN path ELSE <<root>> \o path

current_chunk_name_open(index, chunk_size) ==
    LET min_index == FloorDiv(index, chunk_size) * chunk_size
        max_index == min_index + chunk_size
    IN  chunk_name_formatter(min_index, max_index)

\* one pass of the loop body: the name of the bucket of width chunk_size holding index
current_chunk_name(index, chunk_size) ==
    LET min_index == FloorDiv(index, chunk_size) * chunk_size
        max_index == min_index + chunk_size - 1
    IN  chunk_name_formatter(min_index, max_index)

\* the loop of filename_pattern over chunks[k..]: each bucket is put in front
RECURSIVE chunk_loop(_, _, _, _)
chunk_loop(current, chunks, k, index) ==
    IF k > Len(chunks) THEN Return(current)
    ELSE IF chunks[k] = 0 THEN Raise("ZeroDivisionError")
    ELSE chunk_loop(<<current_chunk_name(index, chunks[k])>> \o current,
                    chunks, k + 1, index)

chunks_not_accumulated(chunk_sizes) == chunk_sizes

\* chunks = tuple(accumulate(chunk_sizes, operator.mul)), computed when the
\* pattern is built; nothing else is done with chunk_sizes there
chunked_filename_pattern(chunk_sizes) == accumulate(chunk_sizes)

\* filename_pattern(index) of the pattern built with `chunks` and `root`
filename_pattern(chunks, root, index) ==
    LET r == chunk_loop(<<filename_formatter(index)>>, chunks, 1, index)
    IN  IF r.kind = "raise" THEN r ELSE Return(ensure_resolved(r.value, root))

ChunkSizeChoices ==
    UNION {[1..n -> (-MaxNegChunkSize)..MaxChunkSize] : n \in 0..MaxChunkLen}

ChunkInit == chunk = Idle

\* chunked_filename_pattern(chunk_sizes, root=root); a behaviour follows the
\* one pattern it builds
BuildChunked ==
    /\ chunk.op = "idle"
    /\ \E chunk_sizes \in ChunkSizeChoices, root \in {None, "out"} :
        chunk' = [op |-> "built", chunk_sizes |-> chunk_sizes, root |-> root,
                  chunks |-> chunked_filename_pattern(chunk_sizes),
                  applied |-> <<>>]
    /\ ChunkOnly

\* filename_pattern(index); the two most recent applications are kept
ApplyChunked ==
    /\ chunk.op = "built"
    /\ \E index \in 0..MaxIndex :
        LET a == [index |-> index,
                  outcome |-> filename_pattern(chunk.chunks, chunk.root, index)]
        IN  chunk' = [chunk EXCEPT !.applied =
                         IF Len(@) = 2 THEN <<@[2], a>> ELSE Append(@, a)]
    /\ ChunkOnly

ChunkNext == BuildChunked \/ ApplyChunked

(***************************************************************************)
(* io.py: make_callable_filename_pattern                                   *)
(* A string template is a sequence of characters over TemplateChars:       *)
(* '%' and 'd' make the old-style directive %d, '{' and '}' delimit a      *)
(* replacement field, 'n' is the name used as index_key, '_' is plain text.*)
(***************************************************************************)
MaxTemplateLen == 3

MaxPatIndex == 11

TemplateChars == {"%", "d", "{", "}", "n", "_"}

Templates == UNION {[1..n -> TemplateChars] : n \in 0..MaxTemplateLen}

\* the replacement field starting at s[start], scanned from s[j]; `name` is
\* the field name read so far
RECURSIVE parse_field(_, _, _, _)
RECURSIVE formatter_parse(_, _, _)
parse_field(s, j, name, names) ==
    IF j > Len(s) THEN Raise("ValueError")
    ELSE IF s[j] = "{" THEN Raise("ValueError")
    ELSE IF s[j] = "}" THEN formatter_parse(s, j + 1, Append(names, name))
    ELSE parse_field(s, j + 1, name \o s[j], names)

\* string.Formatter().parse(s) from s[i] on: the field names of the
\* replacement fields in order, or ValueError for a malformed template
formatter_parse(s, i, names) ==
    IF i > Len(s) THEN Return(names)
    ELSE IF s[i] = "}"
    THEN IF i < Len(s) /\ s[i + 1] = "}"
         THEN formatter_parse(s, i + 2, names)
         ELSE Raise("ValueError")
    ELSE IF s[i] = "{"
    THEN IF i = Len(s) THEN Raise("ValueError")
         ELSE IF s[i + 1] = "{" THEN formatter_parse(s, i + 2, names)
         ELSE parse_field(s, i + 1, "", names)
    ELSE formatter_parse(s, i + 1, names)

\* the text of s with every character joined: str(filename_pattern)
RECURSIVE Text(_)
Text(s) == IF s = <<>> THEN "" ELSE Head(s) \o Text(Tail(s))

\* s % arg for one int arg, from s[i] on: `used` says whether a directive has
\* taken the argument, `out` is the text produced so far
RECURSIVE percent_format(_, _, _, _, _)
percent_format(s, i, used, out, arg) ==
    IF i > Len(s)
    THEN IF used THEN Return(out) ELSE Raise("TypeError")
    ELSE IF s[i] # "%" THEN percent_format(s, i + 1, used, out \o s[i], arg)
    ELSE IF i = Len(s) THEN Raise("ValueError")
    ELSE IF s[i + 1] = "%" THEN percent_format(s, i + 2, used, out \o "%", arg)
    ELSE IF used THEN Raise("TypeError")
    ELSE IF s[i + 1] = "d" THEN percent_format(s, i + 2, TRUE, out \o Dec(arg), arg)
    ELSE Raise("ValueError")

\* s.format(**{index_key: index}) from s[i] on
RECURSIVE str_format(_, _, _, _, _)
RECURSIVE str_format_field(_, _, _, _, _, _)
str_format_field(s, j, name, out, index_key, index) ==
    IF j > Len(s) THEN Raise("ValueError")
    ELSE IF s[j] = "{" THEN Raise("ValueError")
    ELSE IF s[j] = "}"
    THEN IF name = index_key
         THEN str_format(s, j + 1, out \o Dec(index), index_key, index)
         ELSE IF name = "" THEN Raise("IndexError")
         ELSE Raise("KeyError")
    ELSE str_format_field(s, j + 1, name \o s[j], out, index_key, index)

str_format(s, i, out, index_key, index) ==
    IF i > Len(s) THEN Return(out)
    ELSE IF s[i] = "}"
    THEN IF i < Len(s) /\ s[i + 1] = "}"
         THEN str_format(s, i + 2, out \o "}", index_key, index)
         ELSE Raise("ValueError")
    ELSE IF s[i] = "{"
    THEN IF i = Len(s) THEN Raise("ValueError")
         ELSE IF s[i + 1] = "{" THEN str_format(s, i + 2, out \o "{", index_key, index)
         ELSE str_format_field(s, i + 1, "", out, index_key, index)
    ELSE str_format(s, i + 1, out \o s[i], index_key, index)

\* bl_utils.ensure_parent(path, root=outputdir): the path anchored under outputdir
ensure_parent(path, root) == <<root>> \o path

InSeq(x, seq) == \E k \in DOMAIN seq : seq[k] = x

\* the old-style branch: `filename_pattern_str % 0`, TypeError alone is caught
probe(template) ==
    LET r == percent_format(template, 1, FALSE, "", 0)
    IN  IF r.kind = "raise"
        THEN IF Catches({"TypeError"}, r.exc)
             THEN Return(<<FALSE, template>>)
             ELSE r
        ELSE Return(<<TRUE, [kind |-> "old", template |-> template]>>)

\* make_callable_filename_pattern(outputdir, filename_pattern, index_key) for a
\* string filename_pattern: (ok, function) or the exception that leaves the call
resolve_str(template, index_key) ==
    IF index_key = None THEN probe(template)
    ELSE LET parsed == formatter_parse(template, 1, <<>>)
         IN  IF parsed.kind = "raise" THEN parsed
             ELSE IF InSeq(index_key, parsed.value)
             THEN Return(<<TRUE, [kind |-> "named", template |-> template,
                                   index_key |-> index_key]>>)
             ELSE probe(template)

\* make_callable_filename_pattern(outputdir, filename_pattern, index_key) for a
\* callable filename_pattern: here a chunked pattern, given by its chunks
resolve_callable(chunks) ==
    Return(<<TRUE, [kind |-> "callable", chunks |-> chunks]>>)

\* _filename_pattern(index) of a resolved pattern fn
apply_pattern(fn, outputdir, index) ==
    LET r == CASE fn.kind = "callable" -> filename_pattern(fn.chunks, None, index)
               [] fn.kind = "named" ->
                    LET f == str_format(fn.template, 1, "", fn.index_key, index)
                    IN  IF f.kind = "raise" THEN f ELSE Return(<<f.value>>)
               [] fn.kind = "old" ->
                    LET f == percent_format(fn.template, 1, FALSE, "", index)
                    IN  IF f.kind = "raise" THEN f ELSE Return(<<f.value>>)
    IN  IF r.kind = "raise" THEN r ELSE Return(ensure_parent(r.value, outputdir))

CallableChoices == {<<>>, <<2>>, <<2, 3>>}

PatInit == pat = Idle

ResolveString ==
    /\ PatOnly
    /\ \E template \in Templates, index_key \in {None, "n"} :
        pat' = [op |-> "resolved", given |-> "str", template |-> template,
                index_key |-> index_key,
                outcome |-> resolve_str(template, index_key), applied |-> <<>>]

ResolveCallable ==
    /\ PatOnly
    /\ \E chunk_sizes \in CallableChoices, index_key \in {None, "n"} :
        pat' = [op |-> "resolved", given |-> "callable",
                template |-> chunked_filename_pattern(chunk_sizes),
                index_key |-> index_key,
                outcome |-> resolve_callable(chunked_filename_pattern(chunk_sizes)),
                applied |-> <<>>]

\* a call of the function that was returned with ok = True
ApplyPattern ==
    /\ PatOnly
    /\ pat.op = "resolved"
    /\ pat.outcome.kind = "return"
    /\ pat.outcome.value[1]
    /\ \E index \in 0..MaxPatIndex :
        pat' = [pat EXCEPT !.applied =
                   <<[index |-> index,
                      outcome |-> apply_pattern(pat.outcome.value[2], "out", index)]>>]

PatNext == ResolveString \/ ResolveCallable \/ ApplyPattern

(***************************************************************************)
(* ExperimentVideo.py: one ExperimentVideo object.                         *)
(* An Optional value is a sequence: <<>> for None, <<v>> for the value v.  *)
(* A table (DataFrame) is a record of its columns: `index` (the frame      *)
(* indices; the `name` column goes with it), `categories` (<<>> when the   *)
(* table has no category column, else the value broadcast into it and its  *)
(* dtype), `elapsed_time` (<<>> when the table has no such column, else    *)
(* the column in nanoseconds, the resolution of Timedelta), `path` (<<>>   *)
(* when the table has no path column, else the frame files row by row) and *)
(* `merged` (the columns merged in from an external series, values in 1e-9 *)
(* units).                                                                 *)
(***************************************************************************)
FrameCount == 3

NsPerSecond == 1000000000

Nothing == <<>>

Some(v) == <<v>>

\* the VideoData handed to set_video_data: two with the whole time basis, and
\* one for each of fps, ref_index and ref_elapsed_time missing
VideoDataChoices ==
    { [categories |-> "catA", fps |-> Some(30), ref_index |-> Some(1),
       ref_elapsed_time |-> Some(1)],
      [categories |-> "catB", fps |-> Some(30), ref_index |-> Some(0),
       ref_elapsed_time |-> Some(0)],
      [categories |-> "catA", fps |-> Nothing, ref_index |-> Some(1),
       ref_elapsed_time |-> Some(1)],
      [categories |-> "catB", fps |-> Some(30), ref_index |-> Nothing,
       ref_elapsed_time |-> Some(1)],
      [categories |-> "catA", fps |-> Some(30), ref_index |-> Some(1),
       ref_elapsed_time |-> Nothing] }

\* raise e(msg)
RaiseMsg(e, msg) == [kind |-> "raise", exc |-> e, msg |-> msg]

\* the key of VideoData.categories: the name of the category column
CategoryColumn == "wire"

\* pd.to_timedelta(num / den, unit='s'): the nearest whole number of nanoseconds
to_timedelta(num, den) == (num * NsPerSecond + den \div 2) \div den

\* the elapsed_time_list of make_dataframe, one Timedelta per frame index
elapsed_time_list(data, indices) ==
    LET ref_index        == data.ref_index[1]
        ref_elapsed_time == to_timedelta(data.ref_elapsed_time[1], 1)
        delta            == to_timedelta(1, data.fps[1])
    IN  [k \in DOMAIN indices |-> ref_elapsed_time + delta * (indices[k] - ref_index)]

\* all(available_time_info)
available_time_info(data) ==
    data.fps # Nothing /\ data.ref_index # Nothing /\ data.ref_elapsed_time # Nothing

\* the category columns after convert_dataframe_type: dtype 'category', or the
\* integer codes of the categories (one category per column: code 0)
category_columns(data, categories_as_int) ==
    IF categories_as_int
    THEN [value |-> "0", dtype |-> "int"]
    ELSE [value |-> data.categories, dtype |-> "category"]

\* the name of the path column, when column_names.path is given
PathColumn == "path"

\* df.columns
columns(table) ==
    {"index", "name"}
    \cup (IF table.categories # Nothing THEN {CategoryColumn} ELSE {})
    \cup (IF table.elapsed_time # Nothing THEN {"elapsed_time"} ELSE {})
    \cup (IF table.path # Nothing THEN {PathColumn} ELSE {})
    \cup {m.column : m \in table.merged}

\* pd.read_csv(df_path, usecols=columns) of what DataFrame.to_csv wrote: the
\* values of the columns asked for, the category dtype lost
read_csv(table, usecols) ==
    IF usecols = Nothing
    THEN Return([table EXCEPT !.categories =
                    IF @ = Nothing THEN @
                    ELSE Some([@[1] EXCEPT !.dtype =
                                  IF @ = "category" THEN "object" ELSE @])])
    ELSE IF ~(usecols[1] \subseteq columns(table))
    THEN Raise("ValueError")
    ELSE Return([index |-> table.index,
                 categories |->
                    IF CategoryColumn \in usecols[1] /\ table.categories # Nothing
                    THEN Some([table.categories[1] EXCEPT !.dtype =
                                  IF @ = "category" THEN "object" ELSE @])
                    ELSE Nothing,
                 elapsed_time |->
                    IF "elapsed_time" \in usecols[1] THEN table.elapsed_time ELSE Nothing,
                 path |->
                    IF PathColumn \in usecols[1] THEN table.path ELSE Nothing,
                 merged |-> {m \in table.merged : m.column \in usecols[1]}])

\* the columns load_df is asked for
UsecolsChoices == {Nothing, Some({"index", "name"})}

\* the df_path the object is constructed with, and another path of the same
\* directory, the working directory: a path is the name of a file there
DfPath == "table.csv"

OtherPath == "table2.csv"

Paths == {DfPath, OtherPath}

\* the path arguments of load_df, save_df and move_df: None or a path
PathChoices == {Nothing, Some(OtherPath)}

\* the directories the constructor is given as frames_path: one with the
\* frame file of every frame of the video, one with no frame file
FramesPath == "frames"

EmptyFramesPath == "no_frames"

\* the constructor's column_names and frames_path: the default column names,
\* with no path column
DefaultColumnNames == [column_names |-> [path |-> Nothing], frames_path |-> FramesPath]

\* the default column names, and a path column over either directory
ConstructorChoices ==
    { DefaultColumnNames,
      [column_names |-> [path |-> Some(PathColumn)], frames_path |-> FramesPath],
      [column_names |-> [path |-> Some(PathColumn)], frames_path |-> EmptyFramesPath] }

\* ExperimentVideo.__init__ with df_path=DfPath and the arguments `args`, over
\* the table files `files`
NewExperimentVideo(files, args) ==
    [data |-> Nothing, df |-> Nothing, df_path |-> DfPath, files |-> files,
     column_names |-> args.column_names, frames_path |-> args.frames_path,
     video |-> None, is_open_video |-> FALSE, handles |-> 0,
     last |-> Idle, prev |-> Idle]

EvInit == ev = NewExperimentVideo([p \in Paths |-> Nothing], DefaultColumnNames)

\* the file at self.df_path: <<>> when self.df_path.is_file() is False
df_file(e) == e.files[e.df_path]

\* Path.with_name(name): the sibling called name
with_name(path, name) == name

\* the most pims.Video handles one object creates in a behaviour
MaxHandles == 2

\* pims.Video(str(self.video_path)): a handle of its own, the n-th one the
\* object creates
pims_Video(n) == "pims.Video#" \o Dec(n)

\* an open_video that does not look at _is_open_video
open_video_unguarded(e) ==
    [e EXCEPT !.video = pims_Video(e.handles + 1), !.is_open_video = TRUE,
              !.handles = @ + 1]

\* open_video; `handles` counts the handles the object has created
open_video(e) ==
    IF ~e.is_open_video
    THEN [e EXCEPT !.video = pims_Video(e.handles + 1), !.is_open_video = TRUE,
                   !.handles = @ + 1]
    ELSE e

\* the handle close_video calls close() on, None when it calls none
closed_by_close_video(e) == IF e.is_open_video THEN e.video ELSE None

\* close_video
close_video(e) == [e EXCEPT !.video = None, !.is_open_video = FALSE]

\* frames(auto_open): a context manager with nothing after its yield
frames(e, auto_open) ==
    LET o == IF auto_open THEN open_video(e) ELSE e
    IN  [obj |-> o, outcome |-> Return(o.video)]

\* frame(i, auto_open)
frame(e, i, auto_open) ==
    LET o == IF auto_open THEN open_video(e) ELSE e
    IN  IF ~auto_open /\ ~e.is_open_video
        THEN [obj |-> e, outcome |-> Raise("ValueError")]
        ELSE IF i >= FrameCount
        THEN [obj |-> o, outcome |-> Raise("IndexError")]
        ELSE [obj |-> o, outcome |-> Return(i)]

\* set_video_data
set_video_data(e, data) == [e EXCEPT !.data = Some(data)]

\* load_df(path, columns, overwrite, missing_ok, inplace): the object after
\* the call, the outcome and what the call did on the way; a path given
\* becomes self.df_path
load_df(e, path, usecols, overwrite, missing_ok, inplace) ==
    LET o == IF path = Nothing THEN e
             ELSE [e EXCEPT !.df_path = ensure_resolved(path[1], None)]
    IN  IF ~overwrite /\ e.df # Nothing
        THEN [obj |-> e, outcome |-> Return(e.df), effects |-> {}]
        ELSE IF missing_ok /\ df_file(o) = Nothing
        THEN [obj |-> o, outcome |-> Return(Nothing), effects |-> {}]
        ELSE IF df_file(o) = Nothing
        THEN [obj |-> o, outcome |-> Raise("FileNotFoundError"), effects |-> {"read_csv"}]
        ELSE LET r == read_csv(df_file(o)[1], usecols)
             IN  IF r.kind = "raise"
                 THEN [obj |-> o, outcome |-> r, effects |-> {"read_csv"}]
                 ELSE [obj |-> IF inplace THEN [o EXCEPT !.df = Some(r.value)] ELSE o,
                       outcome |-> Return(Some(r.value)), effects |-> {"read_csv"}]

\* save_df(path, overwrite): the table goes to path, self.df_path when path
\* is None; self.df_path stays
save_df(e, path, overwrite) ==
    LET target == IF path = Nothing THEN e.df_path ELSE path[1]
    IN  IF overwrite \/ e.files[target] = Nothing
        THEN IF e.df = Nothing
             THEN [obj |-> e, outcome |-> Raise("AttributeError")]
             ELSE [obj |-> [e EXCEPT !.files[target] = e.df],
                   outcome |-> Return(Nothing)]
        ELSE [obj |-> e, outcome |-> Return(Nothing)]

\* move_df(path, renaming, erase_old, overwrite): self.df_path is set, to the
\* sibling `path` of the old one or to `path` resolved, the same file of the
\* working directory; then self.save is called, a method the class lacks
move_df(e, path, renaming, erase_old, overwrite) ==
    LET df_path == IF renaming THEN with_name(e.df_path, path)
                   ELSE ensure_resolved(path, None)
    IN  [obj |-> [e EXCEPT !.df_path = df_path],
         outcome |-> Raise("AttributeError")]

\* the frame files under a frames_path, each one the index in its stem
\* (name_frame<index>.png)
frame_files(frames_path) ==
    IF frames_path = FramesPath THEN 0..(FrameCount - 1) ELSE {}

\* glob_frames(): self.frames_path.rglob('*' + self.frames_suffix)
glob_frames(e) == frame_files(e.frames_path)

\* sorted(paths, key=operator.attrgetter('stem')): stems that differ in one
\* digit are in the order of their indices
RECURSIVE sorted_by_stem(_)
sorted_by_stem(paths) ==
    IF paths = {} THEN <<>>
    ELSE LET first == CHOOSE i \in paths : \A j \in paths : i <= j
         IN  <<first>> \o sorted_by_stem(paths \ {first})

\* make_dataframe from `with self.frames() as f` on: the video is opened and
\* left open, the table is built from self.data, len(f) and, with a path
\* column, the frame files found
compute_dataframe(e, enforce_time, categories_as_int, inplace) ==
    LET opened  == frames(e, TRUE).obj
        indices == [k \in 1..FrameCount |-> k - 1]
        data    == e.data[1]
        globbed == e.column_names.path # Nothing
        paths   == IF globbed THEN Some(sorted_by_stem(glob_frames(e))) ELSE Nothing
        effects == {"open_video", "len_frames"}
                   \cup (IF globbed THEN {"glob_frames"} ELSE {})
    IN  IF ~available_time_info(data) /\ enforce_time
        THEN [obj |-> opened, outcome |-> RaiseMsg("ValueError", "not enough time info"),
              effects |-> {"open_video", "len_frames"}]
        \* pd.DataFrame(data): the columns differ in length
        ELSE IF globbed /\ Len(paths[1]) # Len(indices)
        THEN [obj |-> opened, outcome |-> Raise("ValueError"), effects |-> effects]
        \* convert_dataframe_type reads df[elapsed_time], a column the table lacks
        ELSE IF ~available_time_info(data)
        THEN [obj |-> opened, outcome |-> Raise("KeyError"), effects |-> effects]
        ELSE LET df == [index |-> indices,
                        categories |-> Some(category_columns(data, categories_as_int)),
                        elapsed_time |-> Some(elapsed_time_list(data, indices)),
                        path |-> paths,
                        merged |-> {}]
             IN  [obj |-> IF inplace THEN [opened EXCEPT !.df = Some(df)] ELSE opened,
                  outcome |-> Return(Some(df)), effects |-> effects]

\* a first check that never finds the cached table
cache_hit_never(e, recalculate) == FALSE

\* a first check that ignores recalculate
cache_hit_ignoring_recalculate(e, recalculate) == e.df # Nothing

\* the first check of make_dataframe: `not recalculate and self.df is not None`
cache_hit(e, recalculate) == ~recalculate /\ e.df # Nothing

\* make_dataframe(recalculate, exist_load, enforce_time, categories_as_int, inplace)
make_dataframe(e, recalculate, exist_load, enforce_time, categories_as_int, inplace) ==
    IF cache_hit(e, recalculate)
    THEN [obj |-> e, outcome |-> Return(e.df), effects |-> {}]
    ELSE IF exist_load /\ df_file(e) # Nothing
    THEN LET l == load_df(e, Nothing, Nothing, FALSE, FALSE, TRUE)
         IN  [obj |-> l.obj, outcome |-> Return(l.obj.df), effects |-> l.effects]
    ELSE IF e.data = Nothing
    THEN [obj |-> e, outcome |-> RaiseMsg("ValueError", "video data must be previously set"),
          effects |-> {}]
    ELSE compute_dataframe(e, enforce_time, categories_as_int, inplace)

\* the external series handed to set_data and sync_time_series: a DataFrame,
\* a function from its column names to two-row columns (time in seconds)
DataSources ==
    { [time |-> <<0, 1>>, heat_flux |-> <<0, 1>>],
      [time |-> <<0, 1>>, temperature |-> <<1, 0>>, name |-> <<1, 1>>] }

\* interp1d(time, values) is defined on [time[1], time[2]] only
in_range(time, x) == time[1] * NsPerSecond <= x /\ x <= time[2] * NsPerSecond

\* interp1d(time, values)(x): linear between the two rows, x in nanoseconds,
\* the value in 1e-9 units
interp1d(time, values, x) ==
    values[1] * NsPerSecond
        + ((values[2] - values[1]) * (x - time[1] * NsPerSecond)) \div (time[2] - time[1])

\* the loop of set_data: self.df[column] = interpolator(self.df[elapsed_time])
\* for every column of columns_to_set
merge_columns(df, data_source, source_time_column, columns_to_set) ==
    IF df.elapsed_time = Nothing
    THEN Raise("KeyError")
    ELSE LET x    == df.elapsed_time[1]
             time == data_source[source_time_column]
         IN  IF \E k \in DOMAIN x : ~in_range(time, x[k])
             THEN RaiseMsg("ValueError", "x_new is out of the interpolation range")
             ELSE Return([df EXCEPT !.merged = @ \cup
                            { [column |-> c,
                               values |-> [k \in DOMAIN x |->
                                              interp1d(time, data_source[c], x[k])]] :
                              c \in columns_to_set }])

\* a collision check that finds nothing
intersect_none(columns_to_set, df) == {}

\* frozenset(columns_to_set) & frozenset(self.df.columns)
intersect(columns_to_set, df) == columns_to_set \cap columns(df)

\* set_data(data_source, source_time_column); `into` is <<>> unless the call
\* got to its interpolation loop, and then the columns of the table it merges into
set_data(e, data_source, source_time_column) ==
    LET m              == make_dataframe(e, FALSE, FALSE, TRUE, FALSE, TRUE)
        o              == m.obj
        columns_to_set == DOMAIN data_source \ {source_time_column}
    IN  IF m.outcome.kind = "raise"
        THEN [obj |-> o, outcome |-> m.outcome, into |-> Nothing]
        ELSE IF intersect(columns_to_set, o.df[1]) # {}
        THEN [obj |-> o, outcome |-> RaiseMsg("ValueError", "columns exist both"),
              into |-> Nothing]
        ELSE IF source_time_column \notin DOMAIN data_source
        THEN [obj |-> o, outcome |-> Raise("KeyError"), into |-> Nothing]
        ELSE IF columns_to_set = {}
        THEN [obj |-> o, outcome |-> Return(o.df), into |-> Nothing]
        ELSE LET r == merge_columns(o.df[1], data_source, source_time_column,
                                    columns_to_set)
             IN  IF r.kind = "raise"
                 THEN [obj |-> o, outcome |-> r, into |-> Some(columns(o.df[1]))]
                 ELSE [obj |-> [o EXCEPT !.df = Some(r.value)],
                       outcome |-> Return(Some(r.value)),
                       into |-> Some(columns(o.df[1]))]

\* sync_dataframes(source_df, dest_df, dest_time_column): every column of
\* source_df but its time column, evaluated at the rows' elapsed time; a column
\* of source_df that dest_df has already makes the merge fail
sync_dataframes(source_df, dest_df) ==
    IF (DOMAIN source_df \ {"time"}) \cap columns(dest_df) # {}
    THEN RaiseMsg("ValueError", "columns exist both")
    ELSE merge_columns(dest_df, source_df, "time", DOMAIN source_df \ {"time"})

\* sync_time_series(source_df, inplace); `into` is <<>> unless the call got to
\* sync_dataframes, and then the columns of the table it merges into
sync_time_series(e, source_df, inplace) ==
    LET m == make_dataframe(e, FALSE, FALSE, TRUE, FALSE, inplace)
        o == m.obj
    IN  IF m.outcome.kind = "raise"
        THEN [obj |-> o, outcome |-> m.outcome, into |-> Nothing]
        ELSE LET dest_df == m.outcome.value[1]
                 r       == sync_dataframes(source_df, dest_df)
             IN  IF r.kind = "raise"
                 THEN [obj |-> o, outcome |-> r, into |-> Some(columns(dest_df))]
                 ELSE [obj |-> IF inplace THEN [o EXCEPT !.df = Some(r.value)] ELSE o,
                       outcome |-> Return(Some(r.value)),
                       into |-> Some(columns(dest_df))]

\* what a make_dataframe keeps of the call before it: that it was a
\* make_dataframe(recalculate=False) that returned, its inplace and whether it
\* left a table cached
MemoCall(e, call) ==
    IF /\ call.op = "make_dataframe"
       /\ e.last.op = "make_dataframe"
    THEN IF ~e.last.recalculate /\ e.last.outcome.kind = "return"
         THEN [op |-> "make_dataframe", inplace |-> e.last.inplace,
               cached |-> e.df # Nothing]
         ELSE Idle
    ELSE Idle

\* the object after a call: the call recorded as the last one
After(obj, call) == [obj EXCEPT !.prev = MemoCall(ev, call), !.last = call]

\* a new ExperimentVideo with arguments drawn from `choices`, the files as
\* they are
Construct(choices) ==
    /\ EvOnly
    /\ ev.last # Idle
    /\ \E args \in choices :
        ev' = After(NewExperimentVideo(ev.files, args),
                    [op |-> "__init__", column_names |-> args.column_names,
                     frames_path |-> args.frames_path])

SetVideoData ==
    /\ EvOnly
    /\ \E data \in VideoDataChoices :
        ev' = After(set_video_data(ev, data), [op |-> "set_video_data", data |-> data])

MakeDataframe ==
    /\ EvOnly
    /\ \E recalculate, exist_load, enforce_time, categories_as_int, inplace \in BOOLEAN :
        LET r == make_dataframe(ev, recalculate, exist_load, enforce_time,
                                categories_as_int, inplace)
        IN  ev' = After(r.obj,
                        [op |-> "make_dataframe", recalculate |-> recalculate,
                         exist_load |-> exist_load, enforce_time |-> enforce_time,
                         categories_as_int |-> categories_as_int,
                         inplace |-> inplace,
                         outcome |-> r.outcome, effects |-> r.effects])
    /\ ev'.handles <= MaxHandles

\* load_df with its path argument drawn from `paths`
LoadDf(paths) ==
    /\ EvOnly
    /\ \E path \in paths, usecols \in UsecolsChoices,
          overwrite, missing_ok, inplace \in BOOLEAN :
        LET r == load_df(ev, path, usecols, overwrite, missing_ok, inplace)
        IN  ev' = After(r.obj,
                        [op |-> "load_df", path |-> path, usecols |-> usecols,
                         overwrite |-> overwrite, missing_ok |-> missing_ok,
                         inplace |-> inplace, outcome |-> r.outcome])

\* save_df with its path argument drawn from `paths`
SaveDf(paths) ==
    /\ EvOnly
    /\ \E path \in paths, overwrite \in BOOLEAN :
        LET r == save_df(ev, path, overwrite)
        IN  ev' = After(r.obj, [op |-> "save_df", path |-> path,
                                overwrite |-> overwrite, outcome |-> r.outcome])

\* move_df to either path, with every combination of its flags
MoveDf ==
    /\ EvOnly
    /\ \E path \in Paths, renaming, erase_old, overwrite \in BOOLEAN :
        LET r == move_df(ev, path, renaming, erase_old, overwrite)
        IN  ev' = After(r.obj, [op |-> "move_df", path |-> path,
                                renaming |-> renaming, erase_old |-> erase_old,
                                overwrite |-> overwrite, outcome |-> r.outcome])

SetData ==
    /\ EvOnly
    /\ \E data_source \in DataSources :
        LET r == set_data(ev, data_source, "time")
        IN  ev' = After(r.obj,
                        [op |-> "set_data", data_source |-> data_source,
                         outcome |-> r.outcome, into |-> r.into])
    /\ ev'.handles <= MaxHandles

SyncTimeSeries ==
    /\ EvOnly
    /\ \E source_df \in DataSources, inplace \in BOOLEAN :
        LET r == sync_time_series(ev, source_df, inplace)
        IN  ev' = After(r.obj,
                        [op |-> "sync_time_series", source_df |-> source_df,
                         inplace |-> inplace,
                         outcome |-> r.outcome, into |-> r.into])
    /\ ev'.handles <= MaxHandles

OpenVideo ==
    /\ EvOnly
    /\ ev' = After(open_video(ev),
                   [op |-> "open_video", was_open |-> ev.is_open_video])
    /\ ev'.handles <= MaxHandles

CloseVideo ==
    /\ EvOnly
    /\ ev' = After(close_video(ev),
                   [op |-> "close_video", was_open |-> ev.is_open_video,
                    closed |-> closed_by_close_video(ev)])

Frames ==
    /\ EvOnly
    /\ \E auto_open \in BOOLEAN :
        LET r == frames(ev, auto_open)
        IN  ev' = After(r.obj,
                        [op |-> "frames", auto_open |-> auto_open,
                         outcome |-> r.outcome])
    /\ ev'.handles <= MaxHandles

Frame ==
    /\ EvOnly
    /\ \E i \in {0, FrameCount}, auto_open \in BOOLEAN :
        LET r == frame(ev, i, auto_open)
        IN  ev' = After(r.obj,
                        [op |-> "frame", i |-> i, auto_open |-> auto_open,
                         outcome |-> r.outcome])
    /\ ev'.handles <= MaxHandles

\* the operations on the table, reading and writing it at the df_path the
\* object was constructed with, the column names the default ones
TableNext ==
    \/ Construct({DefaultColumnNames}) \/ SetVideoData \/ MakeDataframe
    \/ LoadDf({Nothing}) \/ SaveDf({Nothing})
    \/ SetData \/ SyncTimeSeries

\* the operations that derive the table and persist it, with and without a
\* path column
DeriveNext ==
    \/ Construct(ConstructorChoices) \/ SetVideoData \/ MakeDataframe
    \/ SaveDf({Nothing})

\* the operations that take the table to and from a path, and those that
\* give the object a table
PathNext ==
    \/ Construct({DefaultColumnNames}) \/ SetVideoData \/ MakeDataframe
    \/ LoadDf(PathChoices) \/ SaveDf(PathChoices) \/ MoveDf

\* the operations on the video handle
HandleNext ==
    \/ SetVideoData \/ MakeDataframe \/ OpenVideo \/ CloseVideo \/ Frames \/ Frame

EvNext == TableNext \/ DeriveNext \/ PathNext \/ HandleNext

(***************************************************************************)
(* video.py: extract_frames with a frame_list.  A file is a record of its  *)
(* name and its content: <<n>> for the image of frame n of the video,      *)
(* <<>> for anything else.  ffmpeg is what it does with the command line   *)
(* it is given.                                                            *)
(***************************************************************************)
VideoLen == 2

MaxFrameList == 2

FrameFiles == {"a.png", "b.png"}

\* the frame_list arguments: pairs (frame index, filename), indices before
\* the first frame and after the last one included
FrameLists ==
    UNION { [1..n -> ((-1)..VideoLen) \X FrameFiles] : n \in 0..MaxFrameList }

\* sorted(frame_list, key=lambda x: x[0]): a stable sort on the frame index
RECURSIVE sorted(_)
sorted(frame_list) ==
    IF frame_list = <<>>
    THEN <<>>
    ELSE LET rest == sorted(SubSeq(frame_list, 1, Len(frame_list) - 1))
             x    == frame_list[Len(frame_list)]
             keep == Cardinality({k \in DOMAIN rest : rest[k][1] <= x[1]})
         IN  SubSeq(rest, 1, keep) \o <<x>> \o SubSeq(rest, keep + 1, Len(rest))

\* while instance in frames_used: instance += 1
RECURSIVE next_unused(_, _)
next_unused(instance, used) ==
    IF instance \in used THEN next_unused(instance + 1, used) ELSE instance

\* the loop that fills frames_used
RECURSIVE frames_used(_, _)
frames_used(frame_indices, used) ==
    IF frame_indices = <<>>
    THEN used
    ELSE frames_used(Tail(frame_indices),
                     used \cup {next_unused(Head(frame_indices), used)})

\* the elements of a set of integers in increasing order
RECURSIVE ascending(_)
ascending(S) ==
    IF S = {}
    THEN <<>>
    ELSE LET least == CHOOSE n \in S : \A m \in S : n <= m
         IN  <<least>> \o ascending(S \ {least})

\* ffmpeg -vf select='eq(n,i)+...' -vsync 0 temporary_folder/frame%d: the
\* selected frames of the video, in order, numbered from 1
ffmpeg(selected) == ascending(selected \cap (0..(VideoLen - 1)))

\* the renaming loop over enumerate(filenames, start=1): the files of
\* outputdir after it, a source that is not a file skipped
RECURSIVE rename_all(_, _, _, _)
rename_all(outputdir, staged, filenames, i) ==
    IF i > Len(filenames)
    THEN outputdir
    ELSE rename_all(IF i \in DOMAIN staged
                    THEN {f \in outputdir : f.name # filenames[i]}
                         \cup {[name |-> filenames[i], content |-> <<staged[i]>>]}
                    ELSE outputdir,
                    staged, filenames, i + 1)

\* extract_frames(filepath, outputdir, filename_pattern, frame_list): the
\* files of outputdir after the call, what is left in the temporary folder,
\* whether that folder is still there, and the outcome
extract_frames(outputdir, frame_list) ==
    LET sorted_list   == sorted(frame_list)
        frame_indices == [k \in DOMAIN sorted_list |-> sorted_list[k][1]]
        filenames     == [k \in DOMAIN sorted_list |-> sorted_list[k][2]]
        selected      == frames_used(frame_indices, {})
        staged        == ffmpeg(selected)
        left          == {k \in DOMAIN staged : k > Len(filenames)}
    IN  IF frame_list = <<>>
        \* unzip of an empty list gives nothing to unpack
        THEN [outputdir |-> outputdir, selected |-> {}, staging |-> {},
              temporary_folder |-> FALSE, outcome |-> Raise("ValueError")]
        ELSE [outputdir |-> rename_all(outputdir, staged, filenames, 1),
              selected |-> selected,
              staging |-> {staged[k] : k \in left},
              temporary_folder |-> left # {},
              outcome |-> IF left # {} THEN Raise("OSError") ELSE Return(None)]

ExtractInit ==
    ex = [outputdir |-> {}, staging |-> {}, temporary_folder |-> FALSE, last |-> Idle]

\* a file that is in outputdir before the extraction
PutFile ==
    /\ ExtractOnly
    /\ ex.last = Idle
    /\ \E name \in FrameFiles :
        /\ \A f \in ex.outputdir : f.name # name
        /\ ex' = [ex EXCEPT !.outputdir = @ \cup {[name |-> name, content |-> <<>>]}]

\* one extraction into outputdir
ExtractFrames ==
    /\ ExtractOnly
    /\ ex.last = Idle
    /\ \E frame_list \in FrameLists :
        LET r == extract_frames(ex.outputdir, frame_list)
        IN  ex' = [outputdir |-> r.outputdir, staging |-> r.staging,
                   temporary_folder |-> r.temporary_folder,
                   last |-> [op |-> "extract_frames", frame_list |-> frame_list,
                             before |-> ex.outputdir, selected |-> r.selected,
                             outcome |-> r.outcome]]

ExtractNext == PutFile \/ ExtractFrames

(***************************************************************************)
(* Specifications.  The components share no state, so each is explored on  *)
(* its own; Spec is their interleaving.                                    *)
(***************************************************************************)
Init == PersistInit /\ SerialInit /\ ChunkInit /\ PatInit /\ EvInit /\ ExtractInit

Next == PersistNext \/ SerialNext \/ ChunkNext \/ PatNext \/ EvNext \/ ExtractNext

Spec == Init /\ [][Next]_vars

SpecPersist == Init /\ [][PersistNext]_vars

SpecSerial == Init /\ [][SerialNext]_vars

SpecChunk == Init /\ [][ChunkNext]_vars

SpecPattern == Init /\ [][PatNext]_vars

SpecVideo == Init /\ [][TableNext]_vars

SpecDerive == Init /\ [][DeriveNext]_vars

SpecHandle == Init /\ [][HandleNext]_vars

SpecExtract == Init /\ [][ExtractNext]_vars

(***************************************************************************)
(* Properties of the persistence combinators (SpecPersist, SpecSerial)     *)
(***************************************************************************)

\* C1: when each sub-load hands back a (success, value) pair, the triplet loader
\* has called the sub-loader on train, val and test, all three, whatever the
\* flags; it returns success = success_train /\ success_test, so a failed
\* validation sub-load never makes success false; and when the validation
\* sub-load reports failure the validation slot is None whatever value came
\* with the flag.
C1_TripletLoadPolicy ==
    (io.op = "load" /\ \A p \in SubPaths : io.loader[p].kind = "return") =>
        /\ io.calls = <<"train", "val", "test">>
        /\ io.outcome.kind = "return"
        /\ io.outcome.value[1]
             = (io.loader["train"].value[1] /\ io.loader["test"].value[1])
        /\ (~io.loader["val"].value[1] => io.outcome.value[2][2] = None)

\* a load whose validation sub-load failed while handing back a dataset: the
\* load succeeds and its validation slot is None
C1_Witness ==
    /\ io.op = "load"
    /\ \A p \in SubPaths : io.loader[p].kind = "return"
    /\ io.loader["train"].value = <<TRUE, "dsA">>
    /\ io.loader["val"].value = <<FALSE, "dsB">>
    /\ io.loader["test"].value = <<TRUE, "dsB">>
    /\ io.outcome.kind = "return"
    /\ io.outcome.value = <<TRUE, <<"dsA", None, "dsB">>>>

\* C2: a triplet save that returns has called the element saver on (train,
\* path/train) and (test, path/test), on (val, path/val) exactly when val is
\* not None, each once, and on no other sub-path.
C2_TripletSaveTargets ==
    (io.op = "save" /\ io.outcome.kind = "return") =>
        LET called == {io.calls[k] : k \in DOMAIN io.calls}
        IN  /\ <<io.ds[1], "train">> \in called
            /\ <<io.ds[3], "test">> \in called
            /\ (<<io.ds[2], "val">> \in called) <=> (io.ds[2] # None)
            /\ \A c \in called : c[2] \in {"train", "test"} \/ (c[2] = "val" /\ io.ds[2] # None)
            /\ Len(io.calls) = Cardinality({c[2] : c \in called})

\* a save of a triplet without validation data: two calls, none on val
C2_Witness ==
    /\ io.op = "save"
    /\ io.outcome.kind = "return"
    /\ io.ds = <<"dsA", None, "dsB">>
    /\ io.calls = <<<<"dsA", "train">>, <<"dsB", "test">>>>

\* C3: a load right after a save of x that returned, from the same path,
\* returns (True, x), whatever the path held before the save.
C3_SaveLoadRoundTrip ==
    (io.op = "load_stored" /\ io.after # <<>>) =>
        /\ io.outcome.kind = "return"
        /\ io.outcome.value = <<TRUE, io.after[1]>>

\* C4: the loader returned by add_bool_flag returns (True, value) when the
\* wrapped loader returns value, (False, None) when it raises an exception
\* that is an instance of one of the expected classes, and lets any other
\* exception through unchanged.
C4_BoolFlagPolicy ==
    io.op = "flagged" =>
        IF io.loader_outcome.kind = "return"
        THEN /\ io.outcome.kind = "return"
             /\ io.outcome.value = <<TRUE, io.loader_outcome.value>>
        ELSE IF \E c \in io.expected : c \in Mro(io.loader_outcome.exc)
        THEN /\ io.outcome.kind = "return"
             /\ io.outcome.value = <<FALSE, None>>
        ELSE /\ io.outcome.kind = "raise"
             /\ io.outcome.exc = io.loader_outcome.exc

\* with the default expected_exceptions a PermissionError leaves the call
C4_Witness ==
    /\ io.op = "flagged"
    /\ io.expected = DefaultExpected
    /\ io.loader_outcome.kind = "raise"
    /\ io.loader_outcome.exc = "PermissionError"
    /\ io.outcome.kind = "raise"
    /\ io.outcome.exc = "PermissionError"

\* C5: a save_serialized save that returns has called, for every key k of
\* save_map, that key's saver exactly once, on (data[k], path/k); so data has
\* an entry for every key of save_map.
C5_EveryMapKeySaved ==
    (ser.op = "save" /\ ser.outcome.kind = "return") =>
        \A k \in ser.save_map :
            /\ k \in KeysOf(ser.return_dict)
            /\ Cardinality({i \in DOMAIN ser.calls : ser.calls[i][1] = k}) = 1
            /\ \E i \in DOMAIN ser.calls, j \in DOMAIN ser.return_dict :
                   /\ ser.return_dict[j][1] = k
                   /\ ser.calls[i] = <<k, ser.return_dict[j][2], k>>

(***************************************************************************)
(* Properties of the filename patterns (SpecChunk, SpecPattern)            *)
(***************************************************************************)
ValidChunkSizes(chunk_sizes) == \A k \in DOMAIN chunk_sizes : chunk_sizes[k] >= 1

\* P_k = c0 * c1 * ... * c(k-1), the k-th cumulative product
RECURSIVE CumulativeProduct(_, _)
CumulativeProduct(chunk_sizes, k) ==
    IF k = 0 THEN 1 ELSE CumulativeProduct(chunk_sizes, k - 1) * chunk_sizes[k]

\* D_k: the chunk name of the bucket of width P_k that holds index
BucketName(chunk_sizes, k, index) ==
    LET P   == CumulativeProduct(chunk_sizes, k)
        low == (index \div P) * P
    IN  Dec(low) \o "-" \o Dec(low + P - 1)

\* D_n / ... / D_1 / leaf
BucketPath(chunk_sizes, index) ==
    LET n == Len(chunk_sizes)
    IN  [j \in 1..(n + 1) |->
            IF j <= n THEN BucketName(chunk_sizes, n - j + 1, index)
            ELSE "frame" \o Dec(index) \o ".png"]

RootParts(root) == IF root = None THEN <<>> ELSE <<root>>

\* C6: for chunk sizes that are all positive, every application of the
\* pattern to an index >= 0 returns the path D_n/.../D_1/leaf (under the
\* root, if one was given): the widest bucket outermost, the bucket of c0
\* the parent of the leaf.
C6_ChunkedPath ==
    (chunk.op = "built" /\ ValidChunkSizes(chunk.chunk_sizes)) =>
        \A a \in DOMAIN chunk.applied :
            /\ chunk.applied[a].outcome.kind = "return"
            /\ chunk.applied[a].outcome.value
                 = RootParts(chunk.root)
                   \o BucketPath(chunk.chunk_sizes, chunk.applied[a].index)

\* chunk_sizes (2, 3) and index 7: 6-11/6-7/frame7.png
C6_Witness ==
    /\ chunk.op = "built"
    /\ chunk.chunk_sizes = <<2, 3>>
    /\ chunk.root = None
    /\ Len(chunk.applied) >= 1
    /\ chunk.applied[1].index = 7
    /\ chunk.applied[1].outcome.kind = "return"
    /\ chunk.applied[1].outcome.value = <<"6-11", "6-7", "frame7.png">>

\* the directory segment of bucket level k in a path built for chunk_sizes
LevelSegment(path, root, chunk_sizes, k) ==
    path[Len(RootParts(root)) + Len(chunk_sizes) - k + 1]

Parent(path) == SubSeq(path, 1, Len(path) - 1)

\* C7: for valid chunk sizes and two indices i, j mapped by the same pattern:
\* in the same innermost bucket the two paths have the same parent (so the
\* same ancestors); at every level k the segments are equal exactly when i
\* and j are in the same bucket of that level.
C7_BucketsDecideDirectories ==
    (/\ chunk.op = "built"
     /\ ValidChunkSizes(chunk.chunk_sizes)
     /\ Len(chunk.applied) = 2
     /\ \A a \in 1..2 : chunk.applied[a].outcome.kind = "return") =>
        LET cs == chunk.chunk_sizes
            i  == chunk.applied[1].index
            j  == chunk.applied[2].index
            pi == chunk.applied[1].outcome.value
            pj == chunk.applied[2].outcome.value
        IN  /\ (Len(cs) >= 1 /\ i \div cs[1] = j \div cs[1]) => Parent(pi) = Parent(pj)
            /\ \A k \in 1..Len(cs) :
                   LET P == CumulativeProduct(cs, k)
                   IN  (i \div P = j \div P)
                         <=> (LevelSegment(pi, chunk.root, cs, k)
                                = LevelSegment(pj, chunk.root, cs, k))

\* chunk_sizes (2, 3), indices 1 and 2: different buckets at level 1, the
\* same bucket at level 2
C7_Witness ==
    /\ chunk.op = "built"
    /\ chunk.chunk_sizes = <<2, 3>>
    /\ chunk.root = None
    /\ Len(chunk.applied) = 2
    /\ chunk.applied[1].index = 1
    /\ chunk.applied[2].index = 2
    /\ chunk.applied[1].outcome.kind = "return"
    /\ chunk.applied[2].outcome.kind = "return"
    /\ chunk.applied[1].outcome.value = <<"0-5", "0-1", "frame1.png">>
    /\ chunk.applied[2].outcome.value = <<"0-5", "2-3", "frame2.png">>

\* C8: a pattern built from chunk sizes with an element < 1 never yields a
\* path, for any index.
C8_InvalidChunkSizesRejected ==
    (chunk.op = "built" /\ ~ValidChunkSizes(chunk.chunk_sizes)) =>
        \A a \in DOMAIN chunk.applied : chunk.applied[a].outcome.kind # "return"

\* C9: for a string template the resolver never raises; with a placeholder
\* named index_key it returns ok = True; otherwise it returns (False, template)
\* exactly when `template % 0` is not possible and (True, fn) when it is.
C9_ResolverReportsResolvability ==
    (pat.op = "resolved" /\ pat.given = "str") =>
        LET parsed   == formatter_parse(pat.template, 1, <<>>)
            named    == /\ pat.index_key # None
                        /\ parsed.kind = "return"
                        /\ InSeq(pat.index_key, parsed.value)
            possible == percent_format(pat.template, 1, FALSE, "", 0).kind = "return"
        IN  /\ pat.outcome.kind = "return"
            /\ named => pat.outcome.value[1]
            /\ ~named => /\ pat.outcome.value[1] <=> possible
                         /\ ~pat.outcome.value[1] => pat.outcome.value[2] = pat.template

(***************************************************************************)
(* Properties of ExperimentVideo (SpecVideo)                               *)
(***************************************************************************)

\* C10: after set_video_data the object holds no cached table.
C10_ReplacingDataInvalidates ==
    ev.last.op = "set_video_data" => ev.df = Nothing

\* the last call is a make_dataframe that returned a table
MadeDataframe ==
    /\ ev.last.op = "make_dataframe"
    /\ ev.last.outcome.kind = "return"

\* the last call is a make_dataframe that computed the table it returned
ComputedDataframe == MadeDataframe /\ "len_frames" \in ev.last.effects

\* a make_dataframe(recalculate=False) that returned is followed at once by
\* another one
C11_SecondCall ==
    /\ MadeDataframe /\ ~ev.last.recalculate
    /\ ev'.last.op = "make_dataframe" /\ ev'.last.outcome.kind = "return"
    /\ ~ev'.last.recalculate

C11_Memoized_Step ==
    C11_SecondCall =>
        /\ ev'.last.outcome = ev.last.outcome
        /\ ev'.last.effects = {}

\* C11 as claimed: of two consecutive make_dataframe calls with
\* recalculate=False that both return, whatever their other flags, the second
\* returns the table the first returned and recomputes nothing (no frame
\* count, no glob of frame files, no read of the table file).
C11_Memoized == [][C11_Memoized_Step]_vars

C11_MemoizedOnceCached_Step ==
    C11_SecondCall =>
        /\ ev.df = Nothing <=> (~ev.last.inplace /\ ComputedDataframe)
        /\ ev.df # Nothing => /\ ev'.last.outcome = ev.last.outcome
                              /\ ev'.last.effects = {}
                              /\ ev'.df = ev.df
                              /\ ev'.df = ev'.last.outcome.value
        /\ ev.df = Nothing =>
              IF ev'.last.exist_load /\ df_file(ev) # Nothing
              THEN ev'.last.effects = {"read_csv"}
              ELSE "len_frames" \in ev'.last.effects

\* C11 amended: of two consecutive make_dataframe calls with recalculate=False
\* that both return, whatever their other flags, the first leaves a table
\* cached unless it had inplace=False and computed its table; when it leaves
\* one cached the second returns the table the first returned, the cached
\* one, and recomputes nothing (no frame count, no glob of frame files, no
\* read of the table file); when it leaves none the second reads the table
\* file (exist_load=True and a file at df_path) or computes again.
C11_MemoizedOnceCached == [][C11_MemoizedOnceCached_Step]_vars

\* C11 witness: with a path column configured and a table file at df_path,
\* the second call (exist_load=True, inplace=False) has returned the table the
\* first left cached, with no frame count, no glob and no read
C11_Witness ==
    /\ ev.prev.op = "make_dataframe" /\ ev.prev.cached
    /\ MadeDataframe /\ ~ev.last.recalculate /\ ~ev.last.inplace /\ ev.last.exist_load
    /\ ev.last.effects = {}
    /\ ev.column_names.path # Nothing
    /\ ev.df # Nothing /\ ev.df[1].path # Nothing
    /\ df_file(ev) # Nothing

\* the elapsed-time column of table t has, at the row of frame ref_index, the
\* reference elapsed time, and from row to row a step that is 1/fps to the
\* nearest nanosecond
AffineToNs(t, d) ==
    /\ t.elapsed_time # Nothing
    /\ LET x == t.elapsed_time[1]
       IN  /\ DOMAIN x = DOMAIN t.index
           /\ \A k \in DOMAIN x :
                t.index[k] = d.ref_index[1] => x[k] = d.ref_elapsed_time[1] * NsPerSecond
           /\ \A k \in DOMAIN x : k + 1 \in DOMAIN x =>
                LET err == (x[k + 1] - x[k]) * d.fps[1] - NsPerSecond
                IN  2 * err <= d.fps[1] /\ -2 * err <= d.fps[1]

\* C12: a make_dataframe(recalculate=True, exist_load=False) that returns has
\* computed its table from the VideoData the object holds now and the frame
\* count (category column, elapsed-time column), and with inplace=True that
\* table is the cached one.
C12_RecalculateUsesCurrentData ==
    (MadeDataframe /\ ev.last.recalculate /\ ~ev.last.exist_load) =>
        /\ ev.data # Nothing
        /\ ev.last.outcome.value # Nothing
        /\ "len_frames" \in ev.last.effects
        /\ LET t == ev.last.outcome.value[1]
               d == ev.data[1]
           IN  /\ t.index = [k \in 1..FrameCount |-> k - 1]
               /\ t.categories # Nothing
               /\ t.categories[1].value =
                    IF ev.last.categories_as_int THEN "0" ELSE d.categories
               /\ AffineToNs(t, d)
        /\ ev.last.inplace => ev.df = ev.last.outcome.value

\* C12 witness: a table derived from other VideoData is cached, and the
\* call, with inplace=False, has returned the table of the current VideoData
C12_Witness ==
    /\ MadeDataframe /\ ev.last.recalculate /\ ~ev.last.exist_load
    /\ ~ev.last.inplace /\ ~ev.last.categories_as_int
    /\ ev.df # Nothing /\ ev.df[1].categories # Nothing
    /\ ev.df[1].categories[1].value # ev.data[1].categories
    /\ ev.df[1].elapsed_time # ev.last.outcome.value[1].elapsed_time

\* C13: a make_dataframe called while VideoData is unset raises the
\* ValueError of the missing VideoData, whatever its flags and whatever
\* happened before.
C13_UnsetDataIsFatal ==
    (ev.last.op = "make_dataframe" /\ ev.data = Nothing) =>
        ev.last.outcome = RaiseMsg("ValueError", "video data must be previously set")

\* C14: when a make_dataframe has to compute the table and VideoData lacks
\* one of fps, ref_index, ref_elapsed_time: with enforce_time=True it raises
\* the ValueError of the missing time basis and the cached table stays as it
\* was; with enforce_time=False it returns a table with the index and
\* category columns and without the elapsed-time column.
C14_Step ==
    (/\ ev'.last.op = "make_dataframe"
     /\ "len_frames" \in ev'.last.effects
     /\ ~available_time_info(ev'.data[1])) =>
        IF ev'.last.enforce_time
        THEN /\ ev'.last.outcome = RaiseMsg("ValueError", "not enough time info")
             /\ ev'.df = ev.df
        ELSE /\ ev'.last.outcome.kind = "return"
             /\ ev'.last.outcome.value # Nothing
             /\ ev'.last.outcome.value[1].index = [k \in 1..FrameCount |-> k - 1]
             /\ ev'.last.outcome.value[1].categories # Nothing
             /\ ev'.last.outcome.value[1].elapsed_time = Nothing

C14_MissingTimeBasis == [][C14_Step]_vars

\* C15: in a table that make_dataframe computed from a whole time
\* basis, the row of frame ref_index has the reference elapsed time,
\* consecutive rows differ by exactly 1/fps, and elapsed time never
\* decreases along the index.
C15_ElapsedTimeExact ==
    (ComputedDataframe /\ available_time_info(ev.data[1])) =>
        LET t == ev.last.outcome.value[1]
            d == ev.data[1]
            x == t.elapsed_time[1]
        IN  /\ t.elapsed_time # Nothing
            /\ \A k \in DOMAIN x :
                 t.index[k] = d.ref_index[1] => x[k] = d.ref_elapsed_time[1] * NsPerSecond
            /\ \A k \in DOMAIN x : k + 1 \in DOMAIN x =>
                 /\ (x[k + 1] - x[k]) * d.fps[1] = NsPerSecond
                 /\ x[k] <= x[k + 1]

\* the columns of data_source that set_data is to merge
ColumnsToSet(data_source) == DOMAIN data_source \ {"time"}

\* C16: a set_data whose data_source has a column, other than the time
\* column, with the name of a column the table already has raises the
\* ValueError of the collision and leaves the table as it was; without a
\* cached table the table is the one the call derives first, and it is left
\* with no merged column.
C16_Step ==
    (/\ ev'.last.op = "set_data"
     /\ \/ ev.df # Nothing /\ ColumnsToSet(ev'.last.data_source) \cap columns(ev.df[1]) # {}
        \/ ev.df = Nothing /\ "name" \in ColumnsToSet(ev'.last.data_source)) =>
        /\ ev'.last.outcome.kind = "raise"
        /\ ev'.last.outcome.exc = "ValueError"
        /\ ev.df # Nothing => /\ ev'.df = ev.df
                              /\ ev'.last.outcome = RaiseMsg("ValueError", "columns exist both")
        /\ ev.df = Nothing => (ev'.df = Nothing \/ ev'.df[1].merged = {})

C16_CollisionIsFatal == [][C16_Step]_vars

\* C16 witness: a second set_data with the data_source of a successful one has
\* failed, the merged column still in the table
C16_Witness ==
    /\ ev.last.op = "set_data"
    /\ ev.last.outcome = RaiseMsg("ValueError", "columns exist both")
    /\ ev.df # Nothing
    /\ \E m \in ev.df[1].merged :
        /\ m.column \in ColumnsToSet(ev.last.data_source)
        /\ m.values = [k \in 1..FrameCount |->
                          interp1d(ev.last.data_source.time, ev.last.data_source[m.column],
                                   ev.df[1].elapsed_time[1][k])]

\* C17: a set_data or sync_time_series that gets to its interpolation or sync
\* step merges into a table that has the elapsed-time column, and one that
\* does not get there has raised.
C17_MergeNeedsElapsedTime ==
    (ev.last.op \in {"set_data", "sync_time_series"}) =>
        IF ev.last.into # Nothing
        THEN "elapsed_time" \in ev.last.into[1]
        ELSE ev.last.outcome.kind = "raise"

\* C18: an extract_frames with a frame_list writes, for every pair (n, filename)
\* of the list whose frame n the video has, the image of frame n to
\* outputdir/filename, writes the image of no frame that the list does not
\* name, selects no other frame, and leaves neither a file in the temporary
\* folder nor the folder.
C18_ExtractsListedFrames ==
    (ex.last.op = "extract_frames" /\ ex.last.frame_list # <<>>) =>
        LET frame_list == ex.last.frame_list
            listed     == {frame_list[k][1] : k \in DOMAIN frame_list}
            written    == ex.outputdir \ ex.last.before
        IN  /\ ex.last.selected = listed
            /\ \A f \in written :
                 \E k \in DOMAIN frame_list :
                    f = [name |-> frame_list[k][2], content |-> <<frame_list[k][1]>>]
            /\ \A k \in DOMAIN frame_list :
                 frame_list[k][1] \in 0..(VideoLen - 1) =>
                    [name |-> frame_list[k][2], content |-> <<frame_list[k][1]>>]
                        \in ex.outputdir
            /\ ex.staging = {} /\ ~ex.temporary_folder
            /\ ex.last.outcome = Return(None)

\* C19: a make_dataframe that does not return the cached table at its first
\* check, with exist_load=True and a file at df_path, returns and caches the
\* table read from that file and computes nothing, also when recalculate=True
\* is given while another table is cached.
C19_Step ==
    (/\ ev'.last.op = "make_dataframe"
     /\ ev'.last.recalculate \/ ev.df = Nothing
     /\ ev'.last.exist_load
     /\ df_file(ev) # Nothing) =>
        /\ ev'.last.outcome = Return(Some(read_csv(df_file(ev)[1], Nothing).value))
        /\ ev'.df = ev'.last.outcome.value
        /\ "len_frames" \notin ev'.last.effects

C19_ExistLoadReadsFile == [][C19_Step]_vars

\* C20: a make_dataframe, frames() or frame(i) called with the video handle
\* closed leaves it closed, whether the call returns or raises.
C20_Step ==
    (ev'.last.op \in {"make_dataframe", "frames", "frame"} /\ ~ev.is_open_video) =>
        ~ev'.is_open_video

C20_HandleReleased == [][C20_Step]_vars

\* C21: an open_video on an open handle keeps the handle, creates no second
\* one and leaves _is_open_video True; a close_video on a handle that is not
\* open calls no close() and leaves video None and _is_open_video False; and
\* after every open_video, close_video, frames and frame call _is_open_video
\* is True exactly when video is not None.
C21_Step ==
    /\ (ev'.last.op = "open_video" /\ ev.is_open_video) =>
          /\ ev'.video = ev.video
          /\ ev'.handles = ev.handles
          /\ ev'.is_open_video
    /\ (ev'.last.op = "close_video" /\ ~ev.is_open_video) =>
          /\ ev'.last.closed = None
          /\ ev'.video = None
          /\ ~ev'.is_open_video
    /\ ev'.is_open_video <=> ev'.video # None

C21_OpenCloseIdempotent == [][C21_Step]_vars

\* C21 witness: an open_video on the second handle of the object, open already
C21_Witness ==
    /\ ev.last.op = "open_video" /\ ev.last.was_open
    /\ ev.is_open_video /\ ev.video = pims_Video(2) /\ ev.handles = 2

\* C22: a make_dataframe with inplace=False leaves self.df as it was, whether
\* it returns or raises.
C22_Step ==
    (ev'.last.op = "make_dataframe" /\ ~ev'.last.inplace) => ev'.df = ev.df

C22_NotInplaceKeepsCache == [][C22_Step]_vars

====
